---- MODULE Spec2Model ----
(***************************************************************************)
(* Model of src/src/main.rs: the operator table, the fused tokenizer and   *)
(* shunting-yard converter, and the RPN evaluator of `eval`.               *)
(*                                                                         *)
(* Characters are one-character strings, an expression is a sequence of    *)
(* them.  An f64 is modelled as a sign-magnitude extended rational         *)
(* [s, n, d]: n/d with d > 0 is a finite value (zero keeps its sign, as in *)
(* IEEE-754), 1/0 is an infinity and 0/0 is NaN.  Rounding is not          *)
(* modelled: every value an expression within the bounds can produce is    *)
(* kept exact.                                                             *)
(***************************************************************************)
EXTENDS Integers, Sequences, FiniteSets, TLC

(* ------------------------------ bounds -------------------------------- *)

\* Longest expression enumerated over Alphabet.
MaxLen == 4

(* ---------------------------- characters ------------------------------ *)

Digits == {"0", "1", "2", "3", "4", "5", "6", "7", "8", "9"}

\* Unicode scalar value of a character: the order `k.cmp(&c)` compares by.
Code(c) ==
  CASE c = "\n" -> 10 [] c = " " -> 32 [] c = "#" -> 35
    [] c = "(" -> 40 [] c = ")" -> 41 [] c = "*" -> 42 [] c = "+" -> 43
    [] c = "-" -> 45 [] c = "." -> 46 [] c = "/" -> 47
    [] c = "0" -> 48 [] c = "1" -> 49 [] c = "2" -> 50 [] c = "3" -> 51
    [] c = "4" -> 52 [] c = "5" -> 53 [] c = "6" -> 54 [] c = "7" -> 55
    [] c = "8" -> 56 [] c = "9" -> 57
    [] c = "d" -> 100 [] c = "e" -> 101 [] c = "n" -> 110

\* c.is_digit(10)
is_digit(c) == c \in Digits

\* c.is_whitespace()
is_whitespace(c) == c \in {" ", "\n"}

\* Value of a decimal digit.
DigitVal(c) == Code(c) - Code("0")

(* -------------------------------- f64 ---------------------------------- *)

RECURSIVE GCD(_, _)
GCD(a, b) == IF b = 0 THEN a ELSE GCD(b, a % b)

RECURSIVE Pow10(_)
Pow10(k) == IF k = 0 THEN 1 ELSE 10 * Pow10(k - 1)

Abs(x) == IF x < 0 THEN -x ELSE x
Sgn(x) == IF x < 0 THEN -1 ELSE 1

\* The finite value s * n / d (d > 0) in lowest terms.
Fin(s, n, d) == LET g == GCD(n, d) IN [s |-> s, n |-> n \div g, d |-> d \div g]

Inf(s) == [s |-> s, n |-> 1, d |-> 0]
NaN == [s |-> 1, n |-> 0, d |-> 0]
\* Payload of a token that carries no number.
NoValue == [s |-> 0, n |-> 0, d |-> 0]

IsNaN(x) == x.n = 0 /\ x.d = 0
IsInf(x) == x.n = 1 /\ x.d = 0
IsZero(x) == x.n = 0 /\ x.d = 1
IsNumber(x) == x.s \in {1, -1}

\* -x
Neg(x) == IF IsNaN(x) THEN x ELSE [x EXCEPT !.s = -x.s]

\* a + b
Add(a, b) ==
  IF IsNaN(a) \/ IsNaN(b) THEN NaN
  ELSE IF IsInf(a) /\ IsInf(b) THEN (IF a.s = b.s THEN a ELSE NaN)
  ELSE IF IsInf(a) THEN a
  ELSE IF IsInf(b) THEN b
  ELSE LET num == a.s * a.n * b.d + b.s * b.n * a.d
           den == a.d * b.d
       IN IF num = 0
          THEN Fin(IF a.s = -1 /\ b.s = -1 THEN -1 ELSE 1, 0, 1)
          ELSE Fin(Sgn(num), Abs(num), den)

\* a - b
Sub(a, b) == Add(a, Neg(b))

\* a * b
Mul(a, b) ==
  IF IsNaN(a) \/ IsNaN(b) THEN NaN
  ELSE IF (IsInf(a) /\ IsZero(b)) \/ (IsZero(a) /\ IsInf(b)) THEN NaN
  ELSE IF IsInf(a) \/ IsInf(b) THEN Inf(a.s * b.s)
  ELSE Fin(a.s * b.s, a.n * b.n, a.d * b.d)

\* a / b
Div(a, b) ==
  IF IsNaN(a) \/ IsNaN(b) THEN NaN
  ELSE IF (IsInf(a) /\ IsInf(b)) \/ (IsZero(a) /\ IsZero(b)) THEN NaN
  ELSE IF IsInf(a) \/ IsZero(b) THEN Inf(a.s * b.s)
  ELSE IF IsInf(b) THEN Fin(a.s * b.s, 0, 1)
  ELSE Fin(a.s * b.s, a.n * b.d, a.d * b.n)

RECURSIVE DigitsToNat(_)
DigitsToNat(ds) ==
  IF ds = <<>> THEN 0
  ELSE 10 * DigitsToNat(SubSeq(ds, 1, Len(ds) - 1)) + DigitVal(ds[Len(ds)])

\* contains_dot that looks at the last character only.
contains_dot_last(t) == t # <<>> /\ t[Len(t)] = "."

\* temp.contains('.')
contains_dot(t) == \E i \in 1..Len(t) : t[i] = "."

\* temp.parse::<f64>() for a buffer of digits and '.': <<>> is Err (no digit
\* at all, or more than one '.'), <<v>> is Ok(v).  "3.", ".5" and "3.5" parse.
parse_f64(t) ==
  LET ds == SelectSeq(t, is_digit)
      dots == {i \in 1..Len(t) : t[i] = "."}
      frac == IF dots = {} THEN 0 ELSE Len(t) - (CHOOSE i \in dots : TRUE)
  IN IF ds = <<>> \/ Cardinality(dots) > 1 THEN <<>>
     ELSE <<Fin(1, DigitsToNat(ds), Pow10(frac))>>

(* --------------------------- operator table ---------------------------- *)

Op(sym, argc, prec, res) ==
  [symbol |-> sym, argc |-> argc, precedence |-> prec, resolver |-> res]

\* Operator::MAP, in the order of the source.
MAP ==
  << <<"/", Op("/", 2, 4, "div")>>,
     <<"*", Op("*", 2, 3, "mul")>>,
     <<"+", Op("+", 2, 2, "add")>>,
     <<"-", Op("-", 2, 1, "sub")>> >>

\* k.cmp(&c)
cmp(k, c) ==
  IF Code(k) < Code(c) THEN "Less"
  ELSE IF Code(k) > Code(c) THEN "Greater" ELSE "Equal"

\* The builds of slice::binary_search_by: the loop without an early exit
\* (Rust up to 1.51 and from 1.82) and the one that returns on Equal
\* (Rust 1.52 to 1.81).  On a slice that is not sorted the result is
\* unspecified, so the model takes whatever either build computes.
SearchBuilds == {"no_early_exit", "early_exit"}

\* Indices are 0-based as in the source; -1 stands for Err(_).
RECURSIVE search_base(_, _, _)
search_base(c, base, size) ==
  IF size > 1
  THEN LET half == size \div 2
           mid == base + half
       IN search_base(c, IF cmp(MAP[mid + 1][1], c) = "Greater" THEN base ELSE mid,
                      size - half)
  ELSE base

RECURSIVE search_early(_, _, _)
search_early(c, left, right) ==
  IF left < right
  THEN LET mid == left + ((right - left) \div 2)
           o == cmp(MAP[mid + 1][1], c)
       IN IF o = "Less" THEN search_early(c, mid + 1, right)
          ELSE IF o = "Greater" THEN search_early(c, left, mid)
          ELSE mid
  ELSE -1

\* Self::MAP.binary_search_by(|(k, _)| k.cmp(&c))
binary_search_by(c, build) ==
  IF build = "early_exit" THEN search_early(c, 0, Len(MAP))
  ELSE LET base == search_base(c, 0, Len(MAP))
       IN IF cmp(MAP[base + 1][1], c) = "Equal" THEN base ELSE -1

\* by_char that takes a miss for the first entry of the table.
by_char_nearest(c, build) ==
  LET x == binary_search_by(c, build)
  IN <<MAP[IF x >= 0 THEN x + 1 ELSE 1][2]>>

\* Operator::by_char: <<>> is None, <<op>> is Some(op).
by_char(c, build) ==
  LET x == binary_search_by(c, build)
  IN IF x >= 0 THEN <<MAP[x + 1][2]>> ELSE <<>>

\* Operator::resolve: args[1] is args.get(0), the operand popped first.
\* <<>> stands for the panic of an unwrap on a missing operand.
\* resolve with the operands in popped order (first-popped on the left).
resolve_popped_order(op, args) ==
  IF Len(args) < 2 THEN <<>>
  ELSE CASE op.resolver = "div" -> <<Div(args[1], args[2])>>
         [] op.resolver = "mul" -> <<Mul(args[1], args[2])>>
         [] op.resolver = "add" -> <<Add(args[1], args[2])>>
         [] op.resolver = "sub" -> <<Sub(args[1], args[2])>>

resolve(op, args) ==
  IF Len(args) < 2 THEN <<>>
  ELSE CASE op.resolver = "div" -> <<Div(args[2], args[1])>>
         [] op.resolver = "mul" -> <<Mul(args[2], args[1])>>
         [] op.resolver = "add" -> <<Add(args[2], args[1])>>
         [] op.resolver = "sub" -> <<Sub(args[2], args[1])>>

(* ------------------------------- tokens -------------------------------- *)

NumericLiteral(v) ==
  [kind |-> "NumericLiteral", value |-> v, symbol |-> "", argc |-> 0,
   precedence |-> 0, resolver |-> ""]

Operator(op) ==
  [kind |-> "Operator", value |-> NoValue, symbol |-> op.symbol, argc |-> op.argc,
   precedence |-> op.precedence, resolver |-> op.resolver]

OpenParen ==
  [kind |-> "OpenParen", value |-> NoValue, symbol |-> "", argc |-> 0,
   precedence |-> 0, resolver |-> ""]

(* ------------------------------- results ------------------------------- *)

\* Result<f64, EvalError>; "Running" while eval has not returned, "Panic" for
\* an unwrap on None, "Hang" for a loop that can make no progress.
EvalError ==
  {"InvalidCharacter", "UnexpectedToken", "DuplicateDecimal", "NumberParseError",
   "MismatchedParenthesis", "NotEnoughArguments", "NoResult"}

Running == [tag |-> "Running", value |-> NoValue]
Ok(v) == [tag |-> "Ok", value |-> v]
Err(e) == [tag |-> e, value |-> NoValue]

(* -------------------------------- inputs ------------------------------- *)

\* Characters of the enumerated expressions: two digits, the decimal point,
\* the parentheses, a blank, the four operator symbols and a foreign symbol.
Alphabet == {"0", "3", ".", "(", ")", " ", "+", "-", "*", "/", "#"}

BoundedInputs == UNION {[1..k -> Alphabet] : k \in 0..MaxLen}

\* The expressions the specification names, and a few longer ones.
ExampleInputs ==
  { <<"3", " ", "+", " ", "4", " ", "*", " ", "2">>,
    <<"(", "3", " ", "+", " ", "4", ")", " ", "*", " ", "2">>,
    <<"-", "3", " ", "+", " ", "4">>,
    <<"2", " ", "-", " ", "-", "3">>,
    <<"1", " ", "/", " ", "0">>,
    <<"3", " ", ".", " ", "5", " ", ".", " ", "2">>,
    <<"3", ".", "5", ".", "2">>,
    <<"3", " ", "#", " ", "4">>,
    <<"-", " ", "-", " ", "3">>,
    <<"2", " ", "+", " ", "-", " ", "-", " ", "3">>,
    <<"8", " ", "-", " ", "3", " ", "-", " ", "2">>,
    <<"1", " ", "-", " ", "2", " ", "+", " ", "3">>,
    <<"8", " ", "*", " ", "(", "3", " ", "-", " ", "1", ")", "\n">>,
    <<"(", "(", "3", "+", "4", ")">>,
    <<"3", " ", "4">>,
    <<"8", "/", "4", "/", "2">>,
    <<"2", "*", "3", "*", "4">>,
    <<"1", "+", "2", "+", "3">>,
    <<"8", "-", "3", "-", "2">> }

Inputs == BoundedInputs \cup ExampleInputs

(* -------------------------------- state -------------------------------- *)

VARIABLES
  input,       \* expression: the argument of eval
  pos,         \* index of the character the scan loop takes next
  temp,        \* pending-digits buffer
  holding,     \* Holding Stack, front first
  output,      \* Output Queue, front first
  last_token,  \* Option<Token>: <<>> or <<tok>>
  solve,       \* Operand Stack, front (top) first
  consumed,    \* number of Output Queue tokens the evaluation loop has taken
  lookup,      \* the last call of Operator::by_char: <<>> or <<[c, found]>>
  pc,          \* "scan", "drain", "solve", "done"
  result,      \* what eval returns
  mainpc,      \* main's loop: "read", "eval" (inside the call of eval), "stopped"
  calls,       \* number of read_line calls made so far
  history,     \* the <<expression, result>> pairs of the calls of eval that returned
  printed      \* what main printed last: "", "result", "error", "input error"

\* The state of main around the call of eval.
env == <<mainpc, calls, history, printed>>

vars ==
  <<input, pos, temp, holding, output, last_token, solve, consumed, lookup, pc, result,
    mainpc, calls, history, printed>>

Init ==
  /\ input \in Inputs
  /\ pos = 1
  /\ temp = <<>>
  /\ holding = <<>>
  /\ output = <<>>
  /\ last_token = <<>>
  /\ solve = <<>>
  /\ consumed = 0
  /\ lookup = <<>>
  /\ pc = "scan"
  /\ result = Running
  /\ mainpc = "eval"
  /\ calls = 1
  /\ history = {}
  /\ printed = ""

\* Return that records the value but lets the scan loop go on to the next
\* character.
Return_resumes(r) ==
  /\ result' = r
  /\ pc' = IF pc = "scan" /\ pos <= Len(input) THEN "scan" ELSE "done"
  /\ pos' = IF pc = "scan" /\ pos <= Len(input) THEN pos + 1 ELSE pos
  /\ UNCHANGED <<input, temp, holding, output, last_token, solve, consumed>>

\* `return r;`: eval stops where it is.
Return(r) ==
  /\ pc' = "done"
  /\ result' = r
  /\ UNCHANGED <<input, pos, temp, holding, output, last_token, solve, consumed>>

(* ------------------------- tokenizer + converter ----------------------- *)

\* The character the scan loop is at.
Scanning == pc = "scan" /\ pos <= Len(input)
cur == input[pos]

\* c.is_digit(10): temp.push(c)
ScanDigit ==
  /\ UNCHANGED env
  /\ Scanning
  /\ is_digit(cur)
  /\ temp' = Append(temp, cur)
  /\ pos' = pos + 1
  /\ UNCHANGED <<input, holding, output, last_token, solve, consumed, lookup, pc, result>>

\* c == '.': DuplicateDecimal if the buffer has one, else temp.push(c)
ScanDot ==
  /\ UNCHANGED env
  /\ Scanning
  /\ cur = "."
  /\ UNCHANGED lookup
  /\ IF contains_dot(temp)
     THEN Return(Err("DuplicateDecimal"))
     ELSE /\ temp' = Append(temp, cur)
          /\ pos' = pos + 1
          /\ UNCHANGED <<input, holding, output, last_token, solve, consumed, pc, result>>

\* Any other character: it flushes the pending buffer before its own action.
ScanningOther == Scanning /\ ~is_digit(cur) /\ cur # "."

\* `if !temp.is_empty() { ... }`: the buffer parsed and emitted as a literal.
\* ok is FALSE for the NumberParseError return.
flush(t, out, last) ==
  IF t = <<>> THEN [ok |-> TRUE, output |-> out, last_token |-> last]
  ELSE LET val == parse_f64(t)
       IN IF val = <<>> THEN [ok |-> FALSE, output |-> out, last_token |-> last]
          ELSE [ok |-> TRUE,
                output |-> Append(out, NumericLiteral(val[1])),
                last_token |-> <<NumericLiteral(val[1])>>]

flushed == flush(temp, output, last_token)

\* c == '(': holding.push_front(OpenParen)
ScanOpenParen ==
  /\ UNCHANGED env
  /\ ScanningOther
  /\ cur = "("
  /\ UNCHANGED lookup
  /\ IF ~flushed.ok
     THEN Return(Err("NumberParseError"))
     ELSE /\ temp' = <<>>
          /\ output' = flushed.output
          /\ holding' = <<OpenParen>> \o holding
          /\ last_token' = <<OpenParen>>
          /\ pos' = pos + 1
          /\ UNCHANGED <<input, solve, consumed, pc, result>>

\* pop_to_paren that throws the popped operators away instead of moving
\* them to the Output Queue.
RECURSIVE pop_to_paren_drop(_, _)
pop_to_paren_drop(h, out) ==
  IF h = <<>> \/ Head(h).kind = "OpenParen"
  THEN [holding |-> h, output |-> out]
  ELSE pop_to_paren_drop(Tail(h), out)

\* pop_to_paren without the `break` at an OpenParen: everything is popped.
pop_to_paren_no_break(h, out) == [holding |-> <<>>, output |-> out \o h]

\* The `while !holding.is_empty()` loop of ')': operators move to the Output
\* Queue until an OpenParen is at the front or the stack is empty.
RECURSIVE pop_to_paren(_, _)
pop_to_paren(h, out) ==
  IF h = <<>> \/ Head(h).kind = "OpenParen"
  THEN [holding |-> h, output |-> out]
  ELSE pop_to_paren(Tail(h), Append(out, Head(h)))

\* c == ')'
ScanCloseParen ==
  /\ UNCHANGED env
  /\ ScanningOther
  /\ cur = ")"
  /\ UNCHANGED lookup
  /\ IF ~flushed.ok
     THEN Return(Err("NumberParseError"))
     ELSE LET r == pop_to_paren(holding, flushed.output)
          IN IF r.holding = <<>>
             THEN /\ pc' = "done"
                  /\ result' = Err("MismatchedParenthesis")
                  /\ temp' = <<>>
                  /\ output' = r.output
                  /\ holding' = r.holding
                  /\ last_token' = flushed.last_token
                  /\ UNCHANGED <<input, pos, solve, consumed>>
             ELSE /\ temp' = <<>>
                  /\ output' = r.output
                  /\ last_token' = <<Head(r.holding)>>
                  /\ holding' = IF Head(r.holding).kind = "OpenParen"
                                THEN Tail(r.holding) ELSE r.holding
                  /\ pos' = pos + 1
                  /\ UNCHANGED <<input, solve, consumed, pc, result>>

\* c.is_whitespace(): nothing after the flush
ScanWhitespace ==
  /\ UNCHANGED env
  /\ ScanningOther
  /\ cur \notin {"(", ")"}
  /\ is_whitespace(cur)
  /\ UNCHANGED lookup
  /\ IF ~flushed.ok
     THEN Return(Err("NumberParseError"))
     ELSE /\ temp' = <<>>
          /\ output' = flushed.output
          /\ last_token' = flushed.last_token
          /\ pos' = pos + 1
          /\ UNCHANGED <<input, holding, solve, consumed, pc, result>>

\* The precedence a sign in unary position is given.
UnaryPrecedence == 255

\* `match last_token { Some(Token::Operator(_)) | None => ... }`
unary_position(last) == last = <<>> \/ last[1].kind = "Operator"

\* The local copy `op` after the unary override of '+' and '-'.
override(op, last) ==
  IF (op.symbol = "+" \/ op.symbol = "-") /\ unary_position(last)
  THEN [op EXCEPT !.argc = 1, !.precedence = UnaryPrecedence]
  ELSE op

\* `op_prev.precedence >= op.precedence`
pops(op_prev, op) == op_prev.precedence >= op.precedence

\* pop_operators without the `else { break; }`: an operator of lower
\* precedence at the front is neither popped nor left, the loop spins.
RECURSIVE pop_operators_no_break(_, _, _)
pop_operators_no_break(h, out, op) ==
  IF h = <<>> \/ Head(h).kind = "OpenParen"
  THEN [holding |-> h, output |-> out, hang |-> FALSE]
  ELSE IF Head(h).kind = "Operator" /\ pops(Head(h), op)
  THEN pop_operators_no_break(Tail(h), Append(out, Head(h)), op)
  ELSE [holding |-> h, output |-> out, hang |-> TRUE]

\* The `while !holding.is_empty()` loop of an operator: operators of greater
\* or equal precedence move to the Output Queue.  A front token that is
\* neither an OpenParen nor an Operator is never popped: the loop spins.
RECURSIVE pop_operators(_, _, _)
pop_operators(h, out, op) ==
  IF h = <<>> \/ Head(h).kind = "OpenParen"
  THEN [holding |-> h, output |-> out, hang |-> FALSE]
  ELSE IF Head(h).kind = "Operator"
  THEN IF pops(Head(h), op)
       THEN pop_operators(Tail(h), Append(out, Head(h)), op)
       ELSE [holding |-> h, output |-> out, hang |-> FALSE]
  ELSE [holding |-> h, output |-> out, hang |-> TRUE]

\* Any other character that Operator::by_char finds.
ScanOperator ==
  /\ UNCHANGED env
  /\ ScanningOther
  /\ cur \notin {"(", ")"}
  /\ ~is_whitespace(cur)
  /\ \E build \in SearchBuilds :
       LET found == by_char(cur, build)
           op == override(found[1], flushed.last_token)
           r == pop_operators(holding, flushed.output, op)
       IN /\ found # <<>>
          /\ IF ~flushed.ok
             THEN Return(Err("NumberParseError")) /\ UNCHANGED lookup
             ELSE /\ lookup' = <<[c |-> cur, found |-> found]>>
                  /\ temp' = <<>>
                  /\ output' = r.output
                  /\ IF r.hang
                     THEN /\ pc' = "done"
                          /\ result' = [tag |-> "Hang", value |-> NoValue]
                          /\ holding' = r.holding
                          /\ last_token' = flushed.last_token
                          /\ UNCHANGED <<input, pos, solve, consumed>>
                     ELSE /\ holding' = <<Operator(op)>> \o r.holding
                          /\ last_token' = <<Operator(op)>>
                          /\ pos' = pos + 1
                          /\ UNCHANGED <<input, solve, consumed, pc, result>>

\* Any other character that Operator::by_char does not find.
ScanInvalid ==
  /\ UNCHANGED env
  /\ ScanningOther
  /\ cur \notin {"(", ")"}
  /\ ~is_whitespace(cur)
  /\ \E build \in SearchBuilds :
       LET found == by_char(cur, build)
       IN /\ found = <<>>
          /\ IF ~flushed.ok
             THEN Return(Err("NumberParseError")) /\ UNCHANGED lookup
             ELSE /\ lookup' = <<[c |-> cur, found |-> found]>>
                  /\ temp' = <<>>
                  /\ output' = flushed.output
                  /\ last_token' = flushed.last_token
                  /\ pc' = "done"
                  /\ result' = Err("InvalidCharacter")
                  /\ UNCHANGED <<input, pos, holding, solve, consumed>>

\* After the loop: the remaining digits are flushed as a final literal
\* (last_token is not updated here).
FinalFlush ==
  /\ UNCHANGED env
  /\ pc = "scan"
  /\ pos > Len(input)
  /\ UNCHANGED lookup
  /\ IF ~flushed.ok
     THEN Return(Err("NumberParseError"))
     ELSE /\ temp' = <<>>
          /\ output' = flushed.output
          /\ pc' = "drain"
          /\ UNCHANGED <<input, pos, holding, last_token, solve, consumed, result>>

\* The Holding Stack is emptied into the Output Queue in pop order.  The
\* loop that prints the queue follows; it changes nothing.
Drain ==
  /\ UNCHANGED env
  /\ pc = "drain"
  /\ output' = output \o holding
  /\ holding' = <<>>
  /\ pc' = "solve"
  /\ UNCHANGED <<input, pos, temp, last_token, solve, consumed, lookup, result>>

(* ------------------------------ evaluator ------------------------------ *)

Evaluating == pc = "solve" /\ consumed < Len(output)
tok == output[consumed + 1]

\* Token::NumericLiteral(num): solve.push_front(num)
EvalNumericLiteral ==
  /\ UNCHANGED env
  /\ Evaluating
  /\ tok.kind = "NumericLiteral"
  /\ solve' = <<tok.value>> \o solve
  /\ consumed' = consumed + 1
  /\ UNCHANGED <<input, pos, temp, holding, output, last_token, lookup, pc, result>>

\* not_enough with the bound off by one.
not_enough_off_by_one(stack, op) == Len(stack) < op.argc - 1

\* `solve.len() < op.argc`
not_enough(stack, op) == Len(stack) < op.argc

\* The operand stack after an operator token; <<>> in ok stands for a panic
\* (pop_front().unwrap() on an empty stack, or a resolver reading a missing
\* operand).
apply(stack, op) ==
  IF op.symbol = "+" /\ op.argc = 1 THEN [ok |-> TRUE, solve |-> stack]
  ELSE IF op.symbol = "-" /\ op.argc = 1
  THEN IF stack = <<>> THEN [ok |-> FALSE, solve |-> stack]
       ELSE [ok |-> TRUE, solve |-> <<Neg(Head(stack))>> \o Tail(stack)]
  ELSE IF Len(stack) < op.argc THEN [ok |-> FALSE, solve |-> stack]
  ELSE LET args == SubSeq(stack, 1, op.argc)
           rest == SubSeq(stack, op.argc + 1, Len(stack))
           v == resolve(op, args)
       IN IF v = <<>> THEN [ok |-> FALSE, solve |-> rest]
          ELSE [ok |-> TRUE, solve |-> v \o rest]

\* Token::Operator(op)
EvalOperator ==
  /\ UNCHANGED env
  /\ Evaluating
  /\ tok.kind = "Operator"
  /\ UNCHANGED lookup
  /\ IF not_enough(solve, tok)
     THEN Return(Err("NotEnoughArguments"))
     ELSE LET r == apply(solve, tok)
          IN IF ~r.ok
             THEN Return([tag |-> "Panic", value |-> NoValue])
             ELSE /\ solve' = r.solve
                  /\ consumed' = consumed + 1
                  /\ UNCHANGED <<input, pos, temp, holding, output, last_token, pc, result>>

\* EvalOpenParen that skips the token instead of returning an error.
EvalOpenParen_skip ==
  /\ UNCHANGED env
  /\ pc = "solve" /\ consumed < Len(output)
  /\ output[consumed + 1].kind = "OpenParen"
  /\ consumed' = consumed + 1
  /\ UNCHANGED <<input, pos, temp, holding, output, last_token, solve, lookup, pc, result>>

\* Token::OpenParen
EvalOpenParen ==
  /\ UNCHANGED env
  /\ Evaluating
  /\ tok.kind = "OpenParen"
  /\ UNCHANGED lookup
  /\ Return(Err("UnexpectedToken"))

\* final that returns the bottom (first pushed) value of the stack.
final_bottom(stack) == IF stack # <<>> THEN Ok(stack[Len(stack)]) ELSE Err("NoResult")

\* final that defaults to 0.0 on an empty stack.
final_default(stack) == IF stack # <<>> THEN Ok(Head(stack)) ELSE Ok(Fin(1, 0, 1))

\* The value eval returns once the queue is exhausted.
final(stack) == IF stack # <<>> THEN Ok(Head(stack)) ELSE Err("NoResult")

Finish ==
  /\ UNCHANGED env
  /\ pc = "solve"
  /\ consumed = Len(output)
  /\ UNCHANGED lookup
  /\ Return(final(solve))

(* ---------------------------- specification ---------------------------- *)

Next ==
  \/ ScanDigit
  \/ ScanDot
  \/ ScanOpenParen
  \/ ScanCloseParen
  \/ ScanWhitespace
  \/ ScanOperator
  \/ ScanInvalid
  \/ FinalFlush
  \/ Drain
  \/ EvalNumericLiteral
  \/ EvalOperator
  \/ EvalOpenParen
  \/ Finish

Spec == Init /\ [][Next]_vars

TypeOK ==
  /\ pc \in {"scan", "drain", "solve", "done"}
  /\ result.tag \in EvalError \cup {"Running", "Ok", "Panic", "Hang"}
  /\ (pc = "done") = (result.tag # "Running")

(* ------------------------------ main loop ------------------------------ *)

\* Most read_line calls followed in one run of main.
MaxCalls == 3

\* The command main compares a line with.
Sentinel == <<"e", "n", "d">>

\* Lines read_line can deliver: with their line terminator, or without one
\* when the input ends (the last line, or the empty string at end of file).
Lines ==
  { Sentinel,
    <<"e", "n", "d", "\n">>,
    <<"-", "3", "+", "3", "\n">>,
    <<"(", "3", "\n">>,
    <<"(", ".", "5", ")", "\n">>,
    <<>> }

\* enter with last_token kept from the previous call.
enter_keep_last_token(line) ==
  /\ input' = line
  /\ pos' = 1
  /\ temp' = <<>>
  /\ holding' = <<>>
  /\ output' = <<>>
  /\ last_token' = last_token
  /\ solve' = <<>>
  /\ consumed' = 0
  /\ pc' = "scan"
  /\ result' = Running

\* The call eval(expr.as_str()): the locals of eval as they are declared.
enter(line) ==
  /\ input' = line
  /\ pos' = 1
  /\ temp' = <<>>
  /\ holding' = <<>>
  /\ output' = <<>>
  /\ last_token' = <<>>
  /\ solve' = <<>>
  /\ consumed' = 0
  /\ pc' = "scan"
  /\ result' = Running

\* main before its first read_line; eval has not been called.
MainInit ==
  /\ mainpc = "read"
  /\ calls = 0
  /\ history = {}
  /\ printed = ""
  /\ input = <<>>
  /\ pos = 1
  /\ temp = <<>>
  /\ holding = <<>>
  /\ output = <<>>
  /\ last_token = <<>>
  /\ solve = <<>>
  /\ consumed = 0
  /\ lookup = <<>>
  /\ pc = "done"
  /\ result = Running

\* read_line is Ok and expr is not "end": eval is called with the line.
ReadLine ==
  /\ mainpc = "read"
  /\ calls < MaxCalls
  /\ \E line \in Lines :
       /\ line # Sentinel
       /\ enter(line)
  /\ calls' = calls + 1
  /\ mainpc' = "eval"
  /\ UNCHANGED <<lookup, history, printed>>

\* read_line is Ok and expr == "end": break
Break ==
  /\ mainpc = "read"
  /\ calls < MaxCalls
  /\ Sentinel \in Lines
  /\ calls' = calls + 1
  /\ mainpc' = "stopped"
  /\ UNCHANGED <<input, pos, temp, holding, output, last_token, solve, consumed, lookup,
                 pc, result, history, printed>>

\* read_line is Err: "Input error!" is printed and the loop goes on.
ReadError ==
  /\ mainpc = "read"
  /\ calls < MaxCalls
  /\ calls' = calls + 1
  /\ printed' = "input error"
  /\ UNCHANGED <<input, pos, temp, holding, output, last_token, solve, consumed, lookup,
                 pc, result, mainpc, history>>

\* eval has returned (a panic or a hang would not): "<input> = <result>" or
\* "Error: <error>" is printed and the loop goes on.
PrintResult ==
  /\ mainpc = "eval"
  /\ pc = "done"
  /\ result.tag \in EvalError \cup {"Ok"}
  /\ printed' = IF result.tag = "Ok" THEN "result" ELSE "error"
  /\ history' = history \cup {<<input, result>>}
  /\ mainpc' = "read"
  /\ UNCHANGED <<input, pos, temp, holding, output, last_token, solve, consumed, lookup,
                 pc, result, calls>>

MainNext ==
  \/ ReadLine
  \/ Break
  \/ ReadError
  \/ PrintResult
  \/ ScanDigit
  \/ ScanDot
  \/ ScanOpenParen
  \/ ScanCloseParen
  \/ ScanWhitespace
  \/ ScanOperator
  \/ ScanInvalid
  \/ FinalFlush
  \/ Drain
  \/ EvalNumericLiteral
  \/ EvalOperator
  \/ EvalOpenParen
  \/ Finish

MainSpec == MainInit /\ [][MainNext]_vars

(* ------------------- standard infix arithmetic (reference) ------------- *)
(* The grammar the claims measure eval against:                            *)
(*   expr    ::= term   { ("+" | "-") term }                               *)
(*   term    ::= factor { ("*" | "/") factor }                             *)
(*   factor  ::= ("+" | "-") factor | primary                              *)
(*   primary ::= numeral | "(" expr ")"                                    *)
(*   numeral ::= digit+ [ "." digit+ ]                                     *)
(* with blanks allowed between tokens.  A parse is [ok, val, pos]: whether *)
(* it succeeded, its value, and the index after it.                        *)

RefFail == [ok |-> FALSE, val |-> NoValue, pos |-> 0]
RefOk(v, p) == [ok |-> TRUE, val |-> v, pos |-> p]

RECURSIVE RefSkip(_, _)
RefSkip(s, i) ==
  IF i <= Len(s) /\ is_whitespace(s[i]) THEN RefSkip(s, i + 1) ELSE i

RECURSIVE RefDigitsEnd(_, _)
RefDigitsEnd(s, i) ==
  IF i <= Len(s) /\ is_digit(s[i]) THEN RefDigitsEnd(s, i + 1) ELSE i

\* A numeral starting at the digit s[i].
RefNumeral(s, i) ==
  LET e == RefDigitsEnd(s, i)
      f == IF e + 1 <= Len(s) /\ s[e] = "." /\ is_digit(s[e + 1])
           THEN RefDigitsEnd(s, e + 1) ELSE e
      ds == SelectSeq(SubSeq(s, i, f - 1), is_digit)
  IN RefOk(Fin(1, DigitsToNat(ds), Pow10(IF f = e THEN 0 ELSE f - e - 1)), f)

RefBinary(c, a, b) ==
  CASE c = "+" -> Add(a, b) [] c = "-" -> Sub(a, b)
    [] c = "*" -> Mul(a, b) [] c = "/" -> Div(a, b)

RECURSIVE RefExpr(_, _), RefExprTail(_, _), RefTerm(_, _), RefTermTail(_, _),
          RefFactor(_, _), RefPrimary(_, _)

RefPrimary(s, i) ==
  LET j == RefSkip(s, i)
  IN IF j > Len(s) THEN RefFail
     ELSE IF is_digit(s[j]) THEN RefNumeral(s, j)
     ELSE IF s[j] = "("
     THEN LET e == RefExpr(s, j + 1)
              k == RefSkip(s, e.pos)
          IN IF e.ok /\ k <= Len(s) /\ s[k] = ")" THEN RefOk(e.val, k + 1) ELSE RefFail
     ELSE RefFail

RefFactor(s, i) ==
  LET j == RefSkip(s, i)
  IN IF j <= Len(s) /\ s[j] \in {"+", "-"}
     THEN LET f == RefFactor(s, j + 1)
          IN IF ~f.ok THEN RefFail
             ELSE RefOk(IF s[j] = "-" THEN Neg(f.val) ELSE f.val, f.pos)
     ELSE RefPrimary(s, j)

RefTermTail(s, acc) ==
  LET j == RefSkip(s, acc.pos)
  IN IF j <= Len(s) /\ s[j] \in {"*", "/"}
     THEN LET f == RefFactor(s, j + 1)
          IN IF ~f.ok THEN RefFail
             ELSE RefTermTail(s, RefOk(RefBinary(s[j], acc.val, f.val), f.pos))
     ELSE acc

RefTerm(s, i) ==
  LET f == RefFactor(s, i) IN IF f.ok THEN RefTermTail(s, f) ELSE RefFail

RefExprTail(s, acc) ==
  LET j == RefSkip(s, acc.pos)
  IN IF j <= Len(s) /\ s[j] \in {"+", "-"}
     THEN LET t == RefTerm(s, j + 1)
          IN IF ~t.ok THEN RefFail
             ELSE RefExprTail(s, RefOk(RefBinary(s[j], acc.val, t.val), t.pos))
     ELSE acc

RefExpr(s, i) ==
  LET t == RefTerm(s, i) IN IF t.ok THEN RefExprTail(s, t) ELSE RefFail

\* <<v>> when s is a valid expression of value v, else <<>>.
Standard(s) ==
  LET e == RefExpr(s, 1)
  IN IF e.ok /\ RefSkip(s, e.pos) > Len(s) THEN <<e.val>> ELSE <<>>

WellFormed(s) == Standard(s) # <<>>

\* f64 equality, except that NaN is taken to equal NaN.
SameValue(a, b) == a = b \/ (IsZero(a) /\ IsZero(b))

Done == pc = "done"

(* -------------------------------- claims ------------------------------- *)

\* C1: for every valid expression of literals, balanced parentheses and the
\* four operators, eval returns Ok with the value standard infix arithmetic
\* gives (* and / before + and -, equal rank left to right, unary signs
\* applied to their operand).
C1_StandardArithmetic ==
  (Done /\ WellFormed(input)) =>
    (result.tag = "Ok" /\ SameValue(result.value, Standard(input)[1]))

\* The (argc, precedence) the operator table is stated to hold for a symbol.
TableEntry(c) ==
  CASE c = "/" -> <<2, 4>> [] c = "*" -> <<2, 3>>
    [] c = "+" -> <<2, 2>> [] c = "-" -> <<2, 1>>

\* The table is in ascending order of its symbols.
MapSortedBySymbol ==
  \A i \in 1..(Len(MAP) - 1) : Code(MAP[i][1]) < Code(MAP[i + 1][1])

\* C2: every call of Operator::by_char returns Some operator with the stated
\* (argc, precedence) for '/', '*', '+', '-' and None for any other
\* character, and the table it searches is sorted by symbol.
C2_ByChar ==
  lookup # <<>> =>
    LET c == lookup[1].c
        found == lookup[1].found
    IN /\ IF c \in {"/", "*", "+", "-"}
          THEN found # <<>> /\ <<found[1].argc, found[1].precedence>> = TableEntry(c)
          ELSE found = <<>>
       /\ MapSortedBySymbol

\* An expression that divides one literal by another: numeral / numeral.
Count(s, c) == Cardinality({i \in 1..Len(s) : s[i] = c})
DividesLiterals(s) ==
  /\ WellFormed(s)
  /\ \A i \in 1..Len(s) : is_digit(s[i]) \/ is_whitespace(s[i]) \/ s[i] \in {".", "/"}
  /\ Count(s, "/") = 1

\* C3: dividing one literal by another, a zero literal included, is never an
\* error: eval returns Ok with a number.
C3_DivisionNeverError ==
  (Done /\ DividesLiterals(input)) => (result.tag = "Ok" /\ IsNumber(result.value))

\* C4: for a well-formed expression the evaluation of the Output Queue takes
\* every token once, raises no error and leaves exactly one value on the
\* Operand Stack.
C4_RoundTrip ==
  (Done /\ WellFormed(input)) =>
    (result.tag = "Ok" /\ consumed = Len(output) /\ Len(solve) = 1)

\* C5: an Operator token met with fewer than argc values on the Operand
\* Stack makes eval return NotEnoughArguments, and no step of eval panics on a
\* missing operand; "+" alone returns NotEnoughArguments.
C5_NotEnoughArguments ==
  [][ /\ (Evaluating /\ tok.kind = "Operator" /\ Len(solve) < tok.argc)
           => result' = Err("NotEnoughArguments")
      /\ result'.tag # "Panic"
      /\ (Done' /\ input = <<"+">>) => result' = Err("NotEnoughArguments") ]_vars

C5_Witness ==
  /\ Done
  /\ result = Err("NotEnoughArguments")
  /\ consumed < Len(output)
  /\ output[consumed + 1].kind = "Operator"
  /\ Len(solve) < output[consumed + 1].argc

HasOpenParen(q) == \E i \in 1..Len(q) : q[i].kind = "OpenParen"
FirstOpenParen(q) ==
  CHOOSE i \in 1..Len(q) : q[i].kind = "OpenParen" /\ ~HasOpenParen(SubSeq(q, 1, i - 1))

\* What ')' does to the stack and the queue when an OpenParen is on the stack:
\* the tokens above the nearest OpenParen go to the queue in pop order, and
\* that OpenParen alone is discarded.
ClosesNearest(out) ==
  LET k == FirstOpenParen(holding)
  IN /\ result' = Running
     /\ pos' = pos + 1
     /\ output' = out \o SubSeq(holding, 1, k - 1)
     /\ holding' = SubSeq(holding, k + 1, Len(holding))

\* C6 as stated: whenever ')' is scanned, eval returns MismatchedParenthesis
\* if the Holding Stack has no OpenParen, and otherwise pops to the nearest
\* OpenParen and discards it.
C6_AsStated ==
  [][ (Scanning /\ cur = ")") =>
        IF HasOpenParen(holding)
        THEN ClosesNearest(flush(temp, output, last_token).output)
        ELSE result' = Err("MismatchedParenthesis") ]_vars

\* C6, amended: the same, whenever ')' is scanned and the pending-digits
\* buffer flushed just before it is empty or parses; if it does not parse,
\* eval returns NumberParseError instead.
C6_CloseParen ==
  [][ (Scanning /\ cur = ")") =>
        IF temp # <<>> /\ parse_f64(temp) = <<>>
        THEN result' = Err("NumberParseError")
        ELSE IF HasOpenParen(holding)
        THEN ClosesNearest(IF temp = <<>> THEN output
                           ELSE Append(output, NumericLiteral(parse_f64(temp)[1])))
        ELSE result' = Err("MismatchedParenthesis") ]_vars

C6_Witness ==
  /\ Done
  /\ result = Err("MismatchedParenthesis")
  /\ input[pos] = ")"
  /\ \E i \in 1..(pos - 1) : input[i] = ")"
  /\ \E i \in 1..Len(output) : output[i].kind = "Operator"

\* C7: when the scan (the final flush included) ends without error with an
\* OpenParen on the Holding Stack, the drain moves it to the Output Queue
\* without rejecting the input, evaluation fails with UnexpectedToken at an
\* OpenParen, and eval returns neither Ok nor MismatchedParenthesis.
C7_DanglingOpenParen ==
  [][ /\ (pc = "drain" /\ HasOpenParen(holding))
           => (pc' = "solve" /\ result' = Running /\ holding' = <<>>
               /\ output' = output \o holding)
      /\ (Evaluating /\ tok.kind = "OpenParen") => result' = Err("UnexpectedToken")
      /\ (Done' /\ pos' > Len(input) /\ (HasOpenParen(holding') \/ HasOpenParen(output')))
           => result'.tag \notin {"Ok", "MismatchedParenthesis"} ]_vars

C7_Witness ==
  /\ Done
  /\ result = Err("UnexpectedToken")
  /\ holding = <<>>
  /\ consumed > 0
  /\ output[consumed + 1].kind = "OpenParen"

Ex_SpacedDecimals == <<"3", " ", ".", " ", "5", " ", ".", " ", "2">>
Ex_TwoDecimals == <<"3", ".", "5", ".", "2">>

\* C8 as stated: a '.' met while the numeral being read already has one is
\* rejected with DuplicateDecimal, and so is "3 . 5 . 2".
C8_AsStated ==
  /\ (Done /\ pos <= Len(input) /\ input[pos] = "." /\ Count(temp, ".") > 0)
       => result = Err("DuplicateDecimal")
  /\ (Done /\ input = Ex_SpacedDecimals) => result = Err("DuplicateDecimal")

\* C8, amended: a '.' scanned while the pending-digits buffer already holds a
\* '.' (two decimal points with no other character between them and the
\* digits, as in "3.5.2") makes eval return DuplicateDecimal; in "3 . 5 . 2"
\* each blank flushes the buffer, so no buffer ever holds two, and eval
\* returns NumberParseError when the lone "." is flushed.
C8_DuplicateDecimal ==
  [][ /\ (Scanning /\ cur = "." /\ Count(temp, ".") > 0)
           => result' = Err("DuplicateDecimal")
      /\ (Done' /\ input = Ex_TwoDecimals) => result' = Err("DuplicateDecimal")
      /\ (Done' /\ input = Ex_SpacedDecimals)
           => (result' = Err("NumberParseError") /\ temp' = <<".">>) ]_vars

C8_Witness ==
  /\ Done
  /\ result = Err("DuplicateDecimal")
  /\ input[pos] = "."
  /\ Count(temp, ".") = 1
  /\ Len(temp) > 1

\* Characters of none of the classes the scanner knows.
TableSymbols == {MAP[i][1] : i \in 1..Len(MAP)}
Foreign(c) == c \notin Digits \cup {".", "(", ")", " ", "\n"} \cup TableSymbols

\* C9: scanning a character that is no digit, '.', parenthesis, whitespace or
\* symbol of the operator table returns InvalidCharacter, when the buffer
\* flushed just before it is empty or parses; "3 # 4" returns
\* InvalidCharacter.
C9_InvalidCharacter ==
  [][ /\ (Scanning /\ Foreign(cur) /\ (temp = <<>> \/ parse_f64(temp) # <<>>))
           => result' = Err("InvalidCharacter")
      /\ (Done' /\ input = <<"3", " ", "#", " ", "4">>)
           => result' = Err("InvalidCharacter") ]_vars

C9_Witness ==
  /\ Done
  /\ result = Err("InvalidCharacter")
  /\ Foreign(input[pos])
  /\ output # <<>>

\* C10: eval returns NoResult for the empty input and for every input whose
\* scan ends without error with an empty Output Queue (blanks only, "()"),
\* and returns NoResult only with the Operand Stack empty and the whole
\* Output Queue consumed.
C10_NoResult ==
  [][ /\ (pc = "solve" /\ output = <<>>) => result' = Err("NoResult")
      /\ (Done' /\ input \in {<<>>, <<" ">>, <<"(", ")">>, <<" ", "(", ")", " ">>})
           => result' = Err("NoResult")
      /\ result' = Err("NoResult")
           => (solve' = <<>> /\ consumed' = Len(output') /\ pc = "solve") ]_vars

C10_Witness ==
  /\ Done
  /\ result = Err("NoResult")
  /\ Len(input) > 1
  /\ \E i \in 1..Len(input) : input[i] = "("

\* C11: eval keeps no state between calls: any two calls of eval on the same
\* expression, whatever calls came between, return the same result or error;
\* and every lookup of '+' or '-', also after a call that applied the unary
\* override, returns argc 2 and the precedence of the table.
C11_Deterministic ==
  /\ \A p, q \in history : p[1] = q[1] => p[2] = q[2]
  /\ (lookup # <<>> /\ lookup[1].c \in {"+", "-"}) =>
       /\ lookup[1].found # <<>>
       /\ lookup[1].found[1].argc = 2
       /\ lookup[1].found[1].precedence = (IF lookup[1].c = "+" THEN 2 ELSE 1)

\* A second call on an expression with a unary sign has returned what the
\* first call on it returned.
C11_Witness ==
  /\ mainpc = "eval"
  /\ Done
  /\ calls > 1
  /\ input = <<"-", "3", "+", "3", "\n">>
  /\ result = Ok(Fin(1, 0, 1))
  /\ <<input, result>> \in history

\* C19: a line that is the command end, with or without its line terminator,
\* stops the loop and is never passed to eval; any other line is passed to
\* eval, its result or error is printed, and the loop reads the next line.
C19_Sentinel ==
  [][ /\ mainpc' = "eval" => input' \notin {Sentinel, Sentinel \o <<"\n">>}
      /\ (mainpc = "read" /\ mainpc' = "eval") => input' \in Lines
      /\ (mainpc = "eval" /\ Done) =>
           /\ mainpc' = "read"
           /\ printed' = IF result.tag = "Ok" THEN "result" ELSE "error" ]_vars

\* The last character before index i + 1 that is not whitespace ("" if none).
RECURSIVE PrevChar(_, _)
PrevChar(s, i) ==
  IF i = 0 THEN "" ELSE IF is_whitespace(s[i]) THEN PrevChar(s, i - 1) ELSE s[i]

\* The last observed token once the pending buffer has been flushed.
LastObserved ==
  IF temp # <<>> THEN <<NumericLiteral(parse_f64(temp)[1])>> ELSE last_token

\* A step of the scan that pushes the operator it is at.
PushesOperator ==
  /\ Scanning
  /\ cur \in TableSymbols
  /\ result' = Running
  /\ holding' # <<>>
  /\ Head(holding').kind = "Operator"
  /\ Head(holding').symbol = cur

\* C12: a '+' or '-' is pushed with argc 1 and precedence 255 whenever the
\* last observed token is an operator or there is none yet, and this covers
\* a sign immediately after '('; in every other position, and for '*' and
\* '/' anywhere, the pushed operator has argc 2 and its table precedence.
C12_UnaryOverride ==
  [][ PushesOperator =>
        LET unary == /\ cur \in {"+", "-"}
                     /\ \/ LastObserved = <<>>
                        \/ LastObserved[1].kind = "Operator"
                        \/ PrevChar(input, pos - 1) = "("
            pushed == Head(holding')
        IN <<pushed.argc, pushed.precedence>> =
             (IF unary THEN <<1, 255>> ELSE TableEntry(cur)) ]_vars

\* Number of unary operator tokens in a queue.
UnaryCount(q) ==
  Cardinality({i \in 1..Len(q) : q[i].kind = "Operator" /\ q[i].argc = 1})

\* C13: a unary sign is applied to the operand that follows it before any
\* waiting binary operator, also when several unary signs follow each other:
\* scanning a unary sign moves no unary operator to the Output Queue (the
\* literal it applies to has not been read yet), and "2 - -3" = 5,
\* "-3 + 4" = 1, "- - 3" = 3, "2 + - - 3" = 5.
C13_UnaryBindsTighter ==
  [][ /\ (PushesOperator /\ Head(holding').argc = 1)
           => UnaryCount(output') = UnaryCount(output)
      /\ (Done' /\ input = <<"2", " ", "-", " ", "-", "3">>)
           => result' = Ok(Fin(1, 5, 1))
      /\ (Done' /\ input = <<"-", "3", " ", "+", " ", "4">>)
           => result' = Ok(Fin(1, 1, 1))
      /\ (Done' /\ input = <<"-", " ", "-", " ", "3">>)
           => result' = Ok(Fin(1, 3, 1))
      /\ (Done' /\ input = <<"2", " ", "+", " ", "-", " ", "-", " ", "3">>)
           => result' = Ok(Fin(1, 5, 1)) ]_vars

\* The operators at the front of stack h that a new operator of precedence p
\* pops: those of precedence >= p, up to the first OpenParen or operator of
\* lower precedence.
RECURSIVE PoppedBy(_, _)
PoppedBy(h, p) ==
  IF h # <<>> /\ Head(h).kind = "Operator" /\ Head(h).precedence >= p
  THEN <<Head(h)>> \o PoppedBy(Tail(h), p)
  ELSE <<>>

\* What scanning a binary operator does to the stack and the queue.
PopsThenPushes ==
  LET out == IF temp = <<>> THEN output
             ELSE Append(output, NumericLiteral(parse_f64(temp)[1]))
      popped == PoppedBy(holding, TableEntry(cur)[2])
  IN /\ output' = out \o popped
     /\ Tail(holding') = SubSeq(holding, Len(popped) + 1, Len(holding))

\* digit op digit op digit, with the same operator symbol twice.
IsChain(s) ==
  /\ Len(s) = 5
  /\ is_digit(s[1]) /\ is_digit(s[3]) /\ is_digit(s[5])
  /\ s[2] \in {"+", "-", "*", "/"}
  /\ s[4] = s[2]

ChainValue(s) ==
  RefBinary(s[2], RefBinary(s[2], Fin(1, DigitVal(s[1]), 1), Fin(1, DigitVal(s[3]), 1)),
            Fin(1, DigitVal(s[5]), 1))

\* C14: scanning a binary operator pops every operator of greater or equal
\* precedence from the top of the Holding Stack into the Output Queue, up to
\* the first OpenParen or lower-precedence operator, and pushes the new one;
\* so a chain a op b op c of one binary operator is (a op b) op c, and
\* "8 - 3 - 2" = 3.
C14_LeftAssociative ==
  [][ /\ (PushesOperator /\ Head(holding').argc = 2) => PopsThenPushes
      /\ (Done' /\ IsChain(input)) => result' = Ok(ChainValue(input))
      /\ (Done' /\ input = <<"8", " ", "-", " ", "3", " ", "-", " ", "2">>)
           => result' = Ok(Fin(1, 3, 1)) ]_vars

\* The evaluator is about to reduce a binary operator with both operands there.
ReducesBinary ==
  Evaluating /\ tok.kind = "Operator" /\ tok.argc = 2 /\ Len(solve) >= 2

\* C15: evaluating a binary operator on postfix 'a b op' pops b first and a
\* second, removes exactly these two operands and pushes the one result
\* a op b; on these two operands the reduction of every table entry has the
\* second-popped operand on the left, so 'a b -' is a - b and 'a b /' is a / b.
C15_OperandOrder ==
  [][ /\ ReducesBinary =>
           solve' = <<RefBinary(tok.symbol, solve[2], solve[1])>>
                      \o SubSeq(solve, 3, Len(solve))
      /\ ReducesBinary => \A i \in 1..Len(MAP) :
           resolve(MAP[i][2], <<solve[1], solve[2]>>)
             = <<RefBinary(MAP[i][1], solve[2], solve[1])>> ]_vars

\* "3-0" reduced to 3 - 0 = 3 (the other order gives -3).
C15_Witness ==
  /\ input = <<"3", "-", "0">>
  /\ pc = "solve" /\ consumed = 3
  /\ output[3].symbol = "-" /\ output[3].argc = 2
  /\ solve = <<Fin(1, 3, 1)>>

\* Inputs made of decimal digits and blanks only, with at least one digit.
OnlyLiterals(s) ==
  /\ \A i \in 1..Len(s) : is_digit(s[i]) \/ s[i] = " "
  /\ \E i \in 1..Len(s) : is_digit(s[i])

\* The value of the last run of digits of s.
LastLiteral(s) ==
  LET e == CHOOSE i \in 1..Len(s) :
             is_digit(s[i]) /\ \A k \in (i + 1)..Len(s) : ~is_digit(s[k])
      b == CHOOSE i \in 1..e :
             /\ \A k \in i..e : is_digit(s[k])
             /\ (i = 1 \/ ~is_digit(s[i - 1]))
  IN Fin(1, DigitsToNat(SubSeq(s, b, e)), 1)

\* C16: a literal is pushed on top of the Operand Stack, and once the Output
\* Queue is exhausted a non-empty stack gives Ok with its top value, however
\* many values are left; literals with no operator between them ("3 4")
\* return the last literal.
C16_TopIsResult ==
  [][ /\ (Evaluating /\ tok.kind = "NumericLiteral") => solve' = <<tok.value>> \o solve
      /\ (pc = "solve" /\ consumed = Len(output) /\ solve # <<>>)
           => (Done' /\ result' = Ok(solve[1]))
      /\ (Done' /\ OnlyLiterals(input)) => result' = Ok(LastLiteral(input))
      /\ (Done' /\ input = <<"3", " ", "4">>) => result' = Ok(Fin(1, 4, 1)) ]_vars

\* "3 4" has returned 4 with 3 still on the stack.
C16_Witness ==
  /\ Done /\ input = <<"3", " ", "4">>
  /\ solve = <<Fin(1, 4, 1), Fin(1, 3, 1)>>
  /\ result = Ok(Fin(1, 4, 1))

ScanPhaseErrors ==
  {"InvalidCharacter", "DuplicateDecimal", "NumberParseError", "MismatchedParenthesis"}
EvalPhaseErrors == {"NotEnoughArguments", "UnexpectedToken", "NoResult"}

\* A pending buffer that is no numeral: it has no digit.
Unparsable(t) == t # <<>> /\ \A i \in 1..Len(t) : ~is_digit(t[i])

\* The error the character at hand must give, from what was scanned before
\* it only ("" when none is required): the duplicate '.', then the flush of
\* the pending buffer, then the character's own action.
ScanErrorHere ==
  IF is_digit(cur) THEN ""
  ELSE IF cur = "." THEN (IF Count(temp, ".") > 0 THEN "DuplicateDecimal" ELSE "")
  ELSE IF Unparsable(temp) THEN "NumberParseError"
  ELSE IF cur = ")" /\ ~HasOpenParen(holding) THEN "MismatchedParenthesis"
  ELSE IF Foreign(cur) THEN "InvalidCharacter"
  ELSE ""

\* C17: the first error in processing order is returned and nothing is
\* processed after it.  A scan error at a character ends eval at that
\* character, whatever follows; the flush of the pending buffer comes before
\* the character's own action; evaluation starts only when the whole input is
\* scanned, so a result of the evaluation phase (a value or one of its
\* errors) is returned only for an input scanned without error; no step
\* follows a return.
C17_FirstError ==
  [][ /\ result = Running
      /\ (Scanning /\ ScanErrorHere # "")
           => (Done' /\ result' = Err(ScanErrorHere) /\ pos' = pos)
      /\ result'.tag \in EvalPhaseErrors \cup {"Ok"}
           => (pc = "solve" /\ pos > Len(input) /\ temp = <<>> /\ holding = <<>>)
      /\ (consumed' > 0 \/ solve' # <<>>)
           => (pc = "solve" /\ pos > Len(input) /\ temp = <<>> /\ holding = <<>>)
      /\ result'.tag \in ScanPhaseErrors => (consumed' = 0 /\ solve' = <<>>) ]_vars

\* ".)#+" has returned NumberParseError at the ')': the flush failed before
\* the ')' could find the stack empty, and "#+" was never looked at.
C17_Witness ==
  /\ Done /\ input = <<".", ")", "#", "+">>
  /\ pos = 2
  /\ result = Err("NumberParseError")

\* An upper bound on the steps eval still has to take: the characters left,
\* the final flush, the drain, the tokens left and the result.
Rank ==
  CASE pc = "scan" /\ pos <= Len(input) -> (Len(input) - pos + 1) + Len(input) + 3
    [] pc = "scan" /\ pos > Len(input) -> Len(input) + 3
    [] pc = "drain" -> Len(input) + 2
    [] pc = "solve" -> (Len(output) - consumed) + 1
    [] pc = "done" -> 0

\* C18: eval terminates on every finite input.  The Holding Stack only holds
\* Operator and OpenParen tokens, so no pop loop spins; every step brings eval
\* nearer to its return, which is at most 2 * Len(input) + 3 steps away at
\* the start; the tokens in the stack and the queue never outnumber the
\* characters.
C18_Terminates ==
  [][ /\ Rank' < Rank
      /\ Rank <= 2 * Len(input) + 3
      /\ \A i \in 1..Len(holding') : holding'[i].kind \in {"Operator", "OpenParen"}
      /\ result'.tag # "Hang"
      /\ Len(output') + Len(holding') <= Len(input) ]_vars

\* "3*(+" has returned: the operator pop loop met '*' under an OpenParen and
\* the drain emptied a stack of three tokens.
C18_Witness ==
  /\ Done /\ input = <<"3", "*", "(", "+">>
  /\ holding = <<>> /\ Len(output) = 4
  /\ result.tag \in EvalError

\* The last position of the run of digits and '.' that starts at s[i].
RECURSIVE RunEnd(_, _)
RunEnd(s, i) ==
  IF i < Len(s) /\ (is_digit(s[i + 1]) \/ s[i + 1] = ".") THEN RunEnd(s, i + 1) ELSE i

\* The values of the numerals of s (its maximal runs of digits and '.'),
\* from position i on, left to right.
RECURSIVE NumeralsFrom(_, _)
NumeralsFrom(s, i) ==
  IF i > Len(s) THEN <<>>
  ELSE IF is_digit(s[i]) \/ s[i] = "."
  THEN parse_f64(SubSeq(s, i, RunEnd(s, i))) \o NumeralsFrom(s, RunEnd(s, i) + 1)
  ELSE NumeralsFrom(s, i + 1)

\* The values of the NumericLiteral tokens of q, in queue order.
RECURSIVE Literals(_)
Literals(q) ==
  IF q = <<>> THEN <<>>
  ELSE (IF Head(q).kind = "NumericLiteral" THEN <<Head(q).value>> ELSE <<>>)
         \o Literals(Tail(q))

KindCount(q, k) == Cardinality({i \in 1..Len(q) : q[i].kind = k})

\* C20: conversion neither loses, duplicates nor reorders operands.  While
\* the scan runs without error the literals of the Output Queue are the
\* numerals scanned so far (the pending buffer apart), in input order, and the
\* queue has no OpenParen; when the drain is done the queue has one
\* NumericLiteral per numeral, one Operator per operator character, one
\* OpenParen per '(' that was never closed, and the Holding Stack is empty.
C20_OperandsPreserved ==
  /\ (pc = "scan" /\ result = Running) =>
       /\ Literals(output) = NumeralsFrom(SubSeq(input, 1, pos - 1 - Len(temp)), 1)
       /\ ~HasOpenParen(output)
  /\ pc = "drain" =>
       /\ Literals(output) = NumeralsFrom(input, 1)
       /\ ~HasOpenParen(output)
  /\ pc = "solve" =>
       /\ Literals(output) = NumeralsFrom(input, 1)
       /\ KindCount(output, "NumericLiteral") = Len(NumeralsFrom(input, 1))
       /\ KindCount(output, "Operator")
            = Count(input, "+") + Count(input, "-") + Count(input, "*") + Count(input, "/")
       /\ KindCount(output, "OpenParen") = Count(input, "(") - Count(input, ")")
       /\ holding = <<>>

\* "(3-0" converted: the queue is 3 0 - ( .
C20_Witness ==
  /\ pc = "solve" /\ consumed = 0
  /\ input = <<"(", "3", "-", "0">>
  /\ Literals(output) = <<Fin(1, 3, 1), Fin(1, 0, 1)>>
  /\ output[3].symbol = "-" /\ output[4].kind = "OpenParen"

====
